---- MODULE Spec2Model ----
(***************************************************************************)
(* psub: an edge function that rehosts subscription links.  Three builds   *)
(* of the handler live in the repository (src/unnamed/part_000,            *)
(* src/unnamed/part_001 and src/api/index.js); the variable `variant`      *)
(* says which one is deployed.  Text is modelled by TLA+ strings handled   *)
(* character by character, so that trimming, splitting, base64 and URL     *)
(* parsing are computed the way the JavaScript built-ins compute them.     *)
(***************************************************************************)
EXTENDS Integers, Sequences, FiniteSets, TLC

VARIABLES variant, clients, memoryCache, inflight, resp, ops, data, parsed

vars == <<variant, clients, memoryCache, inflight, resp, ops, data, parsed>>

(***************************************************************************)
(* Strings                                                                 *)
(***************************************************************************)
CharAt(s, i) == SubSeq(s, i, i)

CharsOf(s) == {CharAt(s, i) : i \in 1..Len(s)}

SetMin(S) == CHOOSE x \in S : \A y \in S : x <= y

SetMax(S) == CHOOSE x \in S : \A y \in S : x >= y

\* First position of the one-character string c in s (0 when absent).
PosIn(s, c) ==
  LET at == {i \in 1..Len(s) : CharAt(s, i) = c}
  IN IF at = {} THEN 0 ELSE SetMin(at)

\* The characters of code 32..95 and 97..126, in code order.
PrintableLow == " !\"#$%&'()*+,-./0123456789:;<=>?@ABCDEFGHIJKLMNOPQRSTUVWXYZ[\\]^_"

PrintableHigh == "abcdefghijklmnopqrstuvwxyz{|}~"

\* Stands for every byte that is no character of the tables above.
OtherByte == "?"

charCodeAt ==
  [c \in CharsOf("\t\n\f\r") \cup CharsOf(PrintableLow) \cup CharsOf(PrintableHigh) |->
     IF c = "\t" THEN 9
     ELSE IF c = "\n" THEN 10
     ELSE IF c = "\f" THEN 12
     ELSE IF c = "\r" THEN 13
     ELSE IF PosIn(PrintableLow, c) > 0 THEN 31 + PosIn(PrintableLow, c)
     ELSE 96 + PosIn(PrintableHigh, c)]

fromCharCode(n) ==
  IF n = 9 THEN "\t"
  ELSE IF n = 10 THEN "\n"
  ELSE IF n = 12 THEN "\f"
  ELSE IF n = 13 THEN "\r"
  ELSE IF n \in 32..95 THEN CharAt(PrintableLow, n - 31)
  ELSE IF n \in 97..126 THEN CharAt(PrintableHigh, n - 96)
  ELSE OtherByte

\* The regular expression class \s, and what String.prototype.trim removes.
IsSpace(c) == c \in {" ", "\t", "\n", "\f", "\r"}

trim(s) ==
  LET keep == {i \in 1..Len(s) : ~IsSpace(CharAt(s, i))}
  IN IF keep = {} THEN "" ELSE SubSeq(s, SetMin(keep), SetMax(keep))

includes(s, sub) ==
  \E i \in 1..(Len(s) - Len(sub) + 1) : SubSeq(s, i, i + Len(sub) - 1) = sub

startsWith(s, p) == Len(s) >= Len(p) /\ SubSeq(s, 1, Len(p)) = p

\* First position at which sub occurs in s (0 when it does not).
indexOf(s, sub) ==
  LET at == {i \in 1..(Len(s) - Len(sub) + 1) : SubSeq(s, i, i + Len(sub) - 1) = sub}
  IN IF at = {} THEN 0 ELSE SetMin(at)

\* The strings of a sequence, concatenated (by halves: the depth of the
\* recursion stays logarithmic).
RECURSIVE Concat(_)
Concat(strs) ==
  IF Len(strs) = 0 THEN ""
  ELSE IF Len(strs) = 1 THEN strs[1]
  ELSE LET h == Len(strs) \div 2
       IN Concat(SubSeq(strs, 1, h)) \o Concat(SubSeq(strs, h + 1, Len(strs)))

join(strs, sep) ==
  Concat([i \in 1..Len(strs) |-> IF i = 1 THEN strs[i] ELSE sep \o strs[i]])

\* s.replace(/\s/g, '')
removeSpaces(s) ==
  Concat([i \in 1..Len(s) |-> IF IsSpace(CharAt(s, i)) THEN "" ELSE CharAt(s, i)])

\* s.split(sep) for a non-empty separator string.
RECURSIVE split(_, _)
split(s, sep) ==
  LET p == indexOf(s, sep)
  IN IF p = 0 THEN <<s>>
     ELSE <<SubSeq(s, 1, p - 1)>> \o split(SubSeq(s, p + Len(sep), Len(s)), sep)

\* s.split(/\r?\n/)
splitLines(s) ==
  LET raw == split(s, "\n")
      cut(i) == IF i < Len(raw) /\ Len(raw[i]) > 0 /\ CharAt(raw[i], Len(raw[i])) = "\r"
                THEN SubSeq(raw[i], 1, Len(raw[i]) - 1)
                ELSE raw[i]
  IN [i \in 1..Len(raw) |-> cut(i)]

\* s.replace(pat, rep) with a string pattern: the first occurrence only.
replaceFirst(s, pat, rep) ==
  LET p == indexOf(s, pat)
  IN IF p = 0 THEN s
     ELSE SubSeq(s, 1, p - 1) \o rep \o SubSeq(s, p + Len(pat), Len(s))

\* s.replace(/pat/g, rep) for a literal pattern.
RECURSIVE replaceAll(_, _, _)
replaceAll(s, pat, rep) ==
  LET p == indexOf(s, pat)
  IN IF p = 0 THEN s
     ELSE SubSeq(s, 1, p - 1) \o rep \o replaceAll(SubSeq(s, p + Len(pat), Len(s)), pat, rep)

\* arr.filter(part => part.trim() !== '')
nonBlank(strs) == SelectSeq(strs, LAMBDA part : trim(part) # "")

(***************************************************************************)
(* base64 (atob, btoa)                                                     *)
(***************************************************************************)
Base64Chars == "ABCDEFGHIJKLMNOPQRSTUVWXYZabcdefghijklmnopqrstuvwxyz0123456789+/"

sextetOf == [c \in CharsOf(Base64Chars) |-> PosIn(Base64Chars, c) - 1]

Pow2(n) == IF n = 0 THEN 1 ELSE IF n = 2 THEN 4 ELSE IF n = 4 THEN 16
           ELSE IF n = 6 THEN 64 ELSE IF n = 8 THEN 256 ELSE 1024

\* atob: the forgiving base64 decode.  [ok |-> FALSE] is the exception it
\* throws (a length of 4k+1, or a character outside the alphabet).
atob(input) ==
  LET s0 == removeSpaces(input)
      n0 == Len(s0)
      s == IF n0 % 4 = 0 /\ n0 >= 2 /\ SubSeq(s0, n0 - 1, n0) = "=="
           THEN SubSeq(s0, 1, n0 - 2)
           ELSE IF n0 % 4 = 0 /\ n0 >= 1 /\ CharAt(s0, n0) = "="
           THEN SubSeq(s0, 1, n0 - 1)
           ELSE s0
      n == Len(s)
      v(i) == IF i <= n THEN sextetOf[CharAt(s, i)] ELSE 0
      byte(j) ==
        LET q == (8 * j) \div 6
            r == (8 * j) % 6
            w == v(q + 1) * 4096 + v(q + 2) * 64 + v(q + 3)
        IN (w \div Pow2(10 - r)) % 256
  IN IF n % 4 = 1 \/ \E i \in 1..n : CharAt(s, i) \notin DOMAIN sextetOf
     THEN [ok |-> FALSE, text |-> ""]
     ELSE [ok |-> TRUE,
           text |-> Concat([j \in 1..((6 * n) \div 8) |-> fromCharCode(byte(j - 1))])]

\* btoa of a string of characters below 256.
btoa(s) ==
  LET n == Len(s)
      b(i) == IF i <= n THEN charCodeAt[CharAt(s, i)] ELSE 0
      m == (8 * n + 5) \div 6
      sextet(k) ==
        LET q == (6 * k) \div 8
            r == (6 * k) % 8
            w == b(q + 1) * 256 + b(q + 2)
        IN (w \div Pow2(10 - r)) % 64
      pad == IF n % 3 = 1 THEN "==" ELSE IF n % 3 = 2 THEN "=" ELSE ""
  IN Concat([k \in 1..m |-> CharAt(Base64Chars, sextet(k - 1) + 1)]) \o pad

(***************************************************************************)
(* parseData                                                               *)
(***************************************************************************)
\* /^[A-Za-z0-9+/=\s]+$/
base64Pattern(s) ==
  /\ s # ""
  /\ \A i \in 1..Len(s) :
       CharAt(s, i) \in DOMAIN sextetOf \/ CharAt(s, i) = "=" \/ IsSpace(CharAt(s, i))

Base64MinLen == 20

\* /^(ssr?|vmess1?|trojan|vless|hysteria|hysteria2|tg):\/\//
NodeSchemes == {"ss", "ssr", "vmess", "vmess1", "trojan", "vless", "hysteria", "hysteria2", "tg"}

nodeLinkPattern(s) == \E scheme \in NodeSchemes : startsWith(s, scheme \o "://")

\* parseData with the yaml step and the direct step exchanged.
parseData_YamlAfterDirect(text) ==
  LET trimmed == trim(text)
      decoded == atob(removeSpaces(trimmed))
  IN IF base64Pattern(trimmed) /\ Len(trimmed) > Base64MinLen
        /\ decoded.ok /\ includes(decoded.text, "://")
     THEN [format |-> "base64", data |-> decoded.text]
     ELSE IF nodeLinkPattern(trimmed)
     THEN [format |-> "direct", data |-> trimmed]
     ELSE IF includes(trimmed, "proxies:") \/ includes(trimmed, "Proxy:")
     THEN [format |-> "yaml", data |-> trimmed]
     ELSE [format |-> "unknown", data |-> trimmed]

\* The inner try/catch is the decoded.ok test; nothing else in the body can
\* throw on a string, so the outer catch is never entered.
parseData(text) ==
  LET trimmed == trim(text)
      decoded == atob(removeSpaces(trimmed))
  IN IF base64Pattern(trimmed) /\ Len(trimmed) > Base64MinLen
        /\ decoded.ok /\ includes(decoded.text, "://")
     THEN [format |-> "base64", data |-> decoded.text]
     ELSE IF includes(trimmed, "proxies:") \/ includes(trimmed, "Proxy:")
     THEN [format |-> "yaml", data |-> trimmed]
     ELSE IF nodeLinkPattern(trimmed)
     THEN [format |-> "direct", data |-> trimmed]
     ELSE [format |-> "unknown", data |-> trimmed]

(***************************************************************************)
(* new URL(request.url): pathname, search, searchParams                    *)
(***************************************************************************)
\* A request as the runtime hands it over: request.url is origin, path and
\* search concatenated.
Request(path, search) ==
  [origin |-> "https://h.io", host |-> "h.io", path |-> path, search |-> search]

DoubleDot == {"..", ".%2e", ".%2E", "%2e.", "%2E.", "%2e%2e", "%2e%2E", "%2E%2e", "%2E%2E"}

SingleDot == {".", "%2e", "%2E"}

\* The URL parser's path state: dot segments are removed, a trailing one
\* leaves an empty last segment.
RECURSIVE shorten(_, _)
shorten(segs, out) ==
  IF segs = <<>> THEN out
  ELSE LET seg == Head(segs)
           last == Len(segs) = 1
       IN IF seg \in DoubleDot
          THEN shorten(Tail(segs),
                       (IF out = <<>> THEN out ELSE SubSeq(out, 1, Len(out) - 1))
                         \o (IF last THEN <<"">> ELSE <<>>))
          ELSE IF seg \in SingleDot
          THEN shorten(Tail(segs), out \o (IF last THEN <<"">> ELSE <<>>))
          ELSE shorten(Tail(segs), out \o <<seg>>)

\* url.pathname of a request path that starts with "/".
pathname(path) == "/" \o join(shorten(split(SubSeq(path, 2, Len(path)), "/"), <<>>), "/")

HexDigits == "0123456789ABCDEF"

HexLower == "0123456789abcdef"

hexValue(c) ==
  IF PosIn(HexDigits, c) > 0 THEN PosIn(HexDigits, c) - 1
  ELSE IF PosIn(HexLower, c) > 0 THEN PosIn(HexLower, c) - 1
  ELSE -1

\* The application/x-www-form-urlencoded parser's decoding of a name or value.
formDecode(s) ==
  LET escape(i) == /\ i >= 1 /\ i + 2 <= Len(s) /\ CharAt(s, i) = "%"
                   /\ hexValue(CharAt(s, i + 1)) >= 0 /\ hexValue(CharAt(s, i + 2)) >= 0
  IN Concat([i \in 1..Len(s) |->
       IF escape(i) THEN fromCharCode(16 * hexValue(CharAt(s, i + 1)) + hexValue(CharAt(s, i + 2)))
       ELSE IF escape(i - 1) \/ escape(i - 2) THEN ""
       ELSE IF CharAt(s, i) = "+" THEN " "
       ELSE CharAt(s, i)])

FormSafe == "*-._0123456789ABCDEFGHIJKLMNOPQRSTUVWXYZabcdefghijklmnopqrstuvwxyz"

\* The application/x-www-form-urlencoded serializer's encoding.
formEncode(s) ==
  Concat([i \in 1..Len(s) |->
     LET c == CharAt(s, i)
         n == charCodeAt[c]
     IN IF PosIn(FormSafe, c) > 0 THEN c
        ELSE IF c = " " THEN "+"
        ELSE "%" \o CharAt(HexDigits, (n \div 16) + 1) \o CharAt(HexDigits, (n % 16) + 1)])

\* url.searchParams: the list of <<name, value>> pairs of a search string.
searchParams(search) ==
  LET q == IF startsWith(search, "?") THEN SubSeq(search, 2, Len(search)) ELSE search
      fields == SelectSeq(split(q, "&"), LAMBDA f : f # "")
      pair(f) == LET p == indexOf(f, "=")
                 IN IF p = 0 THEN <<formDecode(f), "">>
                    ELSE <<formDecode(SubSeq(f, 1, p - 1)), formDecode(SubSeq(f, p + 1, Len(f)))>>
  IN [i \in 1..Len(fields) |-> pair(fields[i])]

\* params.getAll(name)
getAll(params, name) ==
  LET hits == SelectSeq(params, LAMBDA p : p[1] = name)
  IN [i \in 1..Len(hits) |-> hits[i][2]]

\* params.get(name): [null |-> TRUE] when there is no such parameter.
get(params, name) ==
  LET all == getAll(params, name)
  IN IF all = <<>> THEN [null |-> TRUE, value |-> ""]
     ELSE [null |-> FALSE, value |-> all[1]]

\* falsy for null only.
falsy_NullOnly(x) == x.null

\* !x for the result of get: null and the empty string are falsy.
falsy(x) == x.null \/ x.value = ""

\* params.set(name, value): the first pair of that name takes the value and
\* the others of that name are removed; a new name is appended.
set(params, name, value) ==
  LET first == SetMin({i \in 1..Len(params) : params[i][1] = name})
      keep == {i \in 1..Len(params) : params[i][1] # name \/ i = first}
      RECURSIVE build(_)
      build(i) == IF i > Len(params) THEN <<>>
                  ELSE (IF i \notin keep THEN <<>>
                        ELSE IF i = first THEN <<(<<name, value>>)>>
                        ELSE <<params[i]>>) \o build(i + 1)
  IN IF getAll(params, name) = <<>> THEN Append(params, <<name, value>>)
     ELSE build(1)

\* params.toString()
paramsToString(params) ==
  join([i \in 1..Len(params) |-> formEncode(params[i][1]) \o "=" \o formEncode(params[i][2])], "&")

(***************************************************************************)
(* JSON.stringify and JSON.parse of a flat object of strings, and Response *)
(***************************************************************************)
\* An object is a sequence of <<name, value>> pairs in insertion order; no
\* name or value of the model holds a quote, a backslash or a control
\* character, so nothing is escaped.
stringify(obj) ==
  "{" \o join([i \in 1..Len(obj) |-> "\"" \o obj[i][1] \o "\":\"" \o obj[i][2] \o "\""], ",") \o "}"

parse(str) ==
  LET inner == SubSeq(str, 3, Len(str) - 2)
      fields == IF Len(str) <= 2 THEN <<>> ELSE split(inner, "\",\"")
      pair(f) == LET p == indexOf(f, "\":\"")
                 IN <<SubSeq(f, 1, p - 1), SubSeq(f, p + 3, Len(f))>>
  IN [i \in 1..Len(fields) |-> pair(fields[i])]

UpperCase == "ABCDEFGHIJKLMNOPQRSTUVWXYZ"

LowerCase == "abcdefghijklmnopqrstuvwxyz"

lowerOf == [c \in CharsOf(UpperCase) |-> CharAt(LowerCase, PosIn(UpperCase, c))]

toLowerCase(s) ==
  Concat([i \in 1..Len(s) |->
     IF CharAt(s, i) \in DOMAIN lowerOf THEN lowerOf[CharAt(s, i)] ELSE CharAt(s, i)])

EmptyHeaders == [name \in {} |-> ""]

\* Headers.append: names are case-insensitive (kept in lower case), and a
\* second value of a name is joined to the first with ", ".
appendHeader(h, name, value) ==
  IF name \in DOMAIN h THEN [h EXCEPT ![name] = @ \o ", " \o value]
  ELSE (name :> value) @@ h

\* The header list of a Response built from an init object.  In the object a
\* later pair of exactly the same name replaces an earlier one; the header
\* list is then filled pair by pair.
RECURSIVE fill(_, _, _)
fill(h, obj, i) ==
  IF i > Len(obj) THEN h
  ELSE fill(IF \E j \in (i + 1)..Len(obj) : obj[j][1] = obj[i][1] THEN h
            ELSE appendHeader(h, toLowerCase(obj[i][1]), obj[i][2]),
            obj, i + 1)

Headers(obj) == fill(EmptyHeaders, obj, 1)

\* new Response(body, {status, headers}) with a string body: without a
\* Content-Type of its own the response gets text/plain;charset=UTF-8.
Response(body, status, obj) ==
  [status |-> status, body |-> body,
   headers |-> Headers(obj) @@ ("content-type" :> "text/plain;charset=UTF-8")]

(***************************************************************************)
(* The deployed build, its configuration and its memory cache              *)
(***************************************************************************)
Variants == {"part_000", "part_001", "api_index"}

\* process.env.BACKEND is unset: the default.
BACKEND == "https://api.v1.mk"

subDir == "subscription"

chars == "abcdefghijklmnopqrstuvwxyz0123456789"

\* Math.random is bounded: one call of generateRandomStr draws one of the
\* first NumKeyDraws characters of chars and repeats it len times.
NumKeyDraws == 2

KeyLen == 16

\* The strings one call may return.
generateRandomStr(len) ==
  {Concat([i \in 1..len |-> CharAt(chars, d)]) : d \in 1..NumKeyDraws}

KeyPool == generateRandomStr(KeyLen)

EmptyMap == [k \in {} |-> ""]

\* No call of parseData yet.
NotParsed == [format |-> "", data |-> ""]

\* The part of an invocation that the loop over the segments changes: the
\* cache, the list replacedURIs, and the record of the memoryCache.set calls
\* made in the current step (stored: the generated keys written under;
\* full: key -> the content and Content-Type last written together), and
\* what parseData made of the body read in the current step.
LoopState(mc, uris) ==
  [mc |-> mc, uris |-> uris, stored |-> {}, full |-> EmptyMap, parsed |-> NotParsed]

uriOf(origin, key) == origin \o "/" \o subDir \o "/" \o key

\* putNode without the second memoryCache.set (the header record).
putNode_NoHeaderRecord(st, origin, key, content, ctype) ==
  [mc |-> (key :> content) @@ st.mc,
   uris |-> Append(st.uris, uriOf(origin, key)),
   stored |-> st.stored \cup {key},
   full |-> (key :> [content |-> content, ctype |-> ctype]) @@ st.full,
   parsed |-> st.parsed]

\* memoryCache.set(key, content); memoryCache.set(key + '_headers',
\* JSON.stringify({'Content-Type': ctype})); replacedURIs.push(uri)
putNode(st, origin, key, content, ctype) ==
  [mc |-> (key :> content)
            @@ ((key \o "_headers") :> stringify(<< <<"Content-Type", ctype>> >>))
            @@ st.mc,
   uris |-> Append(st.uris, uriOf(origin, key)),
   stored |-> st.stored \cup {key},
   full |-> (key :> [content |-> content, ctype |-> ctype]) @@ st.full,
   parsed |-> st.parsed]

\* memoryCache.set(key + '_headers', JSON.stringify(headers))
putHeaders(st, key, headers) ==
  [st EXCEPT !.mc = ((key \o "_headers") :> stringify(headers)) @@ st.mc,
             !.stored = @ \cup {key},
             !.full = [k \in (DOMAIN st.full) \ {key} |-> st.full[k]]]

\* explode that stops after the first link.
explode_FirstOnly(links, origin, st) ==
  IF links = <<>> THEN {st}
  ELSE {putNode(st, origin, nodeKey, Head(links), "text/plain")
          : nodeKey \in generateRandomStr(KeyLen)}

\* for (const link of links) { const nodeKey = generateRandomStr(16); ... }
RECURSIVE explode(_, _, _)
explode(links, origin, st) ==
  IF links = <<>> THEN {st}
  ELSE UNION {explode(Tail(links), origin, putNode(st, origin, nodeKey, Head(links), "text/plain"))
                : nodeKey \in generateRandomStr(KeyLen)}

isHttp(urlPart) == startsWith(urlPart, "https://") \/ startsWith(urlPart, "http://")

\* One iteration of the loop for a segment that is no http(s) URL: the set of
\* loop states it may leave (one per key drawn).
storeSegment(v, urlPart, origin, st) ==
  IF nodeLinkPattern(urlPart)
  THEN {putNode(st, origin, key, urlPart, "text/plain") : key \in generateRandomStr(KeyLen)}
  ELSE IF v = "part_001"
  THEN LET decoded == atob(removeSpaces(urlPart))
           parsedPart == parseData(decoded.text)
       IN IF ~decoded.ok
          THEN {putNode(st, origin, key, urlPart, "text/plain") : key \in generateRandomStr(KeyLen)}
          ELSE IF parsedPart.format = "base64"
          THEN explode(nonBlank(splitLines(parsedPart.data)), origin, st)
          ELSE {st}
  ELSE {st}

\* The iteration of an http(s) segment from the body on (after both awaits).
storeFetched(content, headers, key, origin, st) ==
  LET parsedBody == parseData(content)
      st1 == [putHeaders(st, key, headers) EXCEPT !.parsed = parsedBody]
  IN IF parsedBody.format = "base64"
     THEN explode(nonBlank(splitLines(parsedBody.data)), origin, st1)
     ELSE {putNode(st1, origin, key, content, "text/plain;charset=UTF-8")}

\* The loop from segment i on, up to the next await (the fetch of an http(s)
\* segment, whose key is drawn before it) or to the end of the list.
RECURSIVE loop(_, _, _, _, _)
loop(v, origin, urlParts, i, st) ==
  IF i > Len(urlParts) THEN {[pc |-> "done", i |-> i, key |-> "", st |-> st]}
  ELSE IF isHttp(urlParts[i])
  THEN {[pc |-> "fetch", i |-> i, key |-> key, st |-> st] : key \in generateRandomStr(KeyLen)}
  ELSE UNION {loop(v, origin, urlParts, i + 1, st2)
                : st2 \in storeSegment(v, urlParts[i], origin, st)}

AllInvalid == "Error: All subscription links are invalid or returned empty content."

\* finish without the check of an empty list.
finish_NeverFails(uris) ==
  Response(btoa(join(uris, "\r\n")), 200,
           << <<"Content-Type", "text/plain">>, <<"Access-Control-Allow-Origin", "*">> >>)

\* What follows the loop.
finish(uris) ==
  IF uris = <<>>
  THEN Response(AllInvalid, 400, << <<"Content-Type", "text/plain">> >>)
  ELSE Response(btoa(join(uris, "\r\n")), 200,
                << <<"Content-Type", "text/plain">>, <<"Access-Control-Allow-Origin", "*">> >>)

(***************************************************************************)
(* Invocations: what one step of a handler leaves behind                   *)
(***************************************************************************)
\* An invocation suspended at an await.  kind "resolve": processSubscription
\* at the fetch of segment i (pc "fetch") or at response.text() (pc "text");
\* timer says whether the setTimeout of the current segment's controller is
\* still armed.  kind "backend": the fetch of backendUrl is pending.
Flight(kind, req, urlParts, i, key, uris, pc, timer, headers, backendUrl) ==
  [kind |-> kind, req |-> req, urlParts |-> urlParts, i |-> i, key |-> key,
   replacedURIs |-> uris, pc |-> pc, timer |-> timer, headers |-> headers,
   backendUrl |-> backendUrl]

NoFlight == Flight("none", Request("", ""), <<>>, 0, "", <<>>, "", FALSE, <<>>, "")

NoResponse == [status |-> 0, body |-> "", headers |-> EmptyMap]

\* The step ends the invocation with response res, built at stage via
\* ("route", "lookup", "params", "resolve" or "forward"); read says whether
\* memoryCache.get was called.
Respond(res, via, st, read) ==
  [await |-> FALSE, res |-> res, via |-> via, st |-> st, read |-> read, flight |-> NoFlight]

\* The step ends at an await.
Await(flight, st) ==
  [await |-> TRUE, res |-> NoResponse, via |-> "", st |-> st, read |-> FALSE, flight |-> flight]

\* The outcome of the loop: the fetch of the next http(s) segment is started
\* (setTimeout arms the timer), or the response is returned.
afterLoop(req, urlParts, out) ==
  IF out.pc = "fetch"
  THEN Await(Flight("resolve", req, urlParts, out.i, out.key, out.st.uris, "fetch", TRUE, <<>>, ""),
             out.st)
  ELSE Respond(finish(out.st.uris), "resolve", out.st, FALSE)

(***************************************************************************)
(* GET /subscription/{key}                                                 *)
(***************************************************************************)
DefaultHeaders == << <<"Content-Type", "text/plain;charset=UTF-8">> >>

Cors == << <<"Access-Control-Allow-Origin", "*">> >>

\* serve without the stored header record: the default headers always.
serve_IgnoresHeaders(mc, key) ==
  LET content == IF key \in DOMAIN mc THEN mc[key] ELSE ""
  IN IF content = "" THEN Response("Not Found", 404, <<>>)
     ELSE Response(content, 200, DefaultHeaders \o Cors)

\* The response for a key that passed the key check.
serve(mc, key) ==
  LET content == IF key \in DOMAIN mc THEN mc[key] ELSE ""
      hkey == key \o "_headers"
      headersStr == IF hkey \in DOMAIN mc THEN mc[hkey] ELSE ""
      headers == IF headersStr # "" THEN parse(headersStr) ELSE DefaultHeaders
  IN IF content = "" THEN Response("Not Found", 404, <<>>)
     ELSE Response(content, 200, headers \o Cors)

\* invalidKey without the test for "..".
invalidKey_NoDotDot(key) == key = "" \/ includes(key, "/")

invalidKey(key) == key = "" \/ includes(key, "/") \/ includes(key, "..")

subscription(path, mc) ==
  LET key == replaceFirst(path, "/subscription/", "")
  IN IF invalidKey(key)
     THEN Respond(Response("Invalid key", 400, <<>>), "lookup", LoopState(mc, <<>>), FALSE)
     ELSE Respond(serve(mc, key), "lookup", LoopState(mc, <<>>), TRUE)

(***************************************************************************)
(* / and /version                                                          *)
(***************************************************************************)
\* encodeURIComponent
UriSafe == "!'()*-._~0123456789ABCDEFGHIJKLMNOPQRSTUVWXYZabcdefghijklmnopqrstuvwxyz"

encodeURIComponent(s) ==
  Concat([i \in 1..Len(s) |->
     LET c == CharAt(s, i)
         n == charCodeAt[c]
     IN IF PosIn(UriSafe, c) > 0 THEN c
        ELSE "%" \o CharAt(HexDigits, (n \div 16) + 1) \o CharAt(HexDigits, (n % 16) + 1)])

\* The built-in page, cut to its heading.
FallbackPage == "<h1>psub - Subscription Converter</h1>"

\* What the fetch of {origin}/index.html may return: a page, or "" for a
\* failed fetch or a response that is not ok.
IndexPages == {"", "<a href=https://bulianglin2023.dev/sub>"}

Html == << <<"Content-Type", "text/html; charset=utf-8">> >>

root(v, req, mc) ==
  IF v = "part_000"
  THEN {Respond(Response(IF page = "" THEN FallbackPage
                         ELSE replaceAll(replaceAll(replaceAll(page,
                                "https://bulianglin2023.dev", req.origin),
                                "bulianglin2023.dev", req.host),
                                "https%3A%2F%2Fbulianglin2023.dev", encodeURIComponent(req.origin)),
                         200, Html),
                "route", LoopState(mc, <<>>), FALSE) : page \in IndexPages}
  ELSE {Respond(Response(FallbackPage, 200, Html), "route", LoopState(mc, <<>>), FALSE)}

\* What the fetch of {backend}/version may do: answer (status, text) or fail.
VersionReplies ==
  {[failed |-> FALSE, status |-> 200, text |-> "v0.9.9\n"],
   [failed |-> FALSE, status |-> 502, text |-> ""],
   [failed |-> TRUE, status |-> 0, text |-> ""]}

FetchError == "fetch failed"

PlainUtf8Cors ==
  << <<"Content-Type", "text/plain; charset=utf-8">>, <<"Access-Control-Allow-Origin", "*">> >>

version(v, mc) ==
  LET st == LoopState(mc, <<>>)
      ok(r) == r.status \in 200..299
      answer(r) ==
        IF v = "part_000"
        THEN IF r.failed THEN Response("Error: " \o FetchError, 200, PlainUtf8Cors)
             ELSE IF ok(r) /\ r.text # "" /\ Len(trim(r.text)) > 1
             THEN Response(trim(r.text), 200, PlainUtf8Cors)
             ELSE Response("Error: Backend returned " \o ToString(r.status), 200, PlainUtf8Cors)
        ELSE IF v = "part_001"
        THEN IF r.failed
             THEN Response(stringify(<< <<"error", "Backend unavailable">>,
                                        <<"message", FetchError>>, <<"backend", BACKEND>> >>),
                           503, << <<"Content-Type", "application/json">> >> \o Cors)
             ELSE Response(IF r.text = "" \/ trim(r.text) = ""
                           THEN "subconverter backend (version unknown)" ELSE r.text,
                           200, PlainUtf8Cors
                                  \o << <<"Cache-Control", "no-store, no-cache, must-revalidate">> >>)
        ELSE IF r.failed
             THEN Response(stringify(<< <<"error", FetchError>> >>), 500,
                           << <<"Content-Type", "application/json">> >>)
             ELSE Response(r.text, 200, << <<"Content-Type", "application/json">> >>)
  IN {Respond(answer(r), "route", st, FALSE) : r \in VersionReplies}

(***************************************************************************)
(* /sub: processSubscription, forwardToBackend                             *)
(***************************************************************************)
\* url.search: empty for a bare "?".
searchOf(req) == IF req.search = "?" THEN "" ELSE req.search

\* part_000: the backend URL is the backend, the path and the search as they are.
forwardToBackend(req, path, mc) ==
  Await(Flight("backend", req, <<>>, 0, "", <<>>, "fetch", FALSE, <<>>,
               BACKEND \o path \o searchOf(req)),
        LoopState(mc, <<>>))

processSubscription(v, req, path, mc) ==
  LET params == searchParams(searchOf(req))
      targetUrl == get(params, "url")
      target == get(params, "target")
      urlParts == nonBlank(split(targetUrl.value, "|"))
      st == LoopState(mc, <<>>)
  IN IF falsy(targetUrl)
     THEN {Respond(Response("Missing url parameter", 400, <<>>), "params", st, FALSE)}
     ELSE IF v = "part_000" /\ ~falsy(target)
     THEN {forwardToBackend(req, path, mc)}
     ELSE IF Len(urlParts) = 0
     THEN {Respond(Response("There are no valid links", 400, <<>>), "resolve", st, FALSE)}
     ELSE {afterLoop(req, urlParts, out) : out \in loop(v, req.origin, urlParts, 1, st)}

\* for (const [key, value] of url.searchParams) if (key !== 'url') params.set(key, value)
RECURSIVE copyParams(_, _)
copyParams(from, to) ==
  IF from = <<>> THEN to
  ELSE copyParams(Tail(from),
                  IF Head(from)[1] # "url" THEN set(to, Head(from)[1], Head(from)[2]) ELSE to)

\* api/index.js: every /sub request goes to the backend, with a rebuilt query.
apiSub(req, mc) ==
  LET params == searchParams(searchOf(req))
      targetUrl == get(params, "url")
      st == LoopState(mc, <<>>)
  IN IF falsy(targetUrl)
     THEN Respond(Response("Missing url parameter", 400, <<>>), "params", st, FALSE)
     ELSE Await(Flight("backend", req, <<>>, 0, "", <<>>, "fetch", FALSE, <<>>,
                       BACKEND \o "/sub?"
                         \o paramsToString(copyParams(params, set(<<>>, "url", targetUrl.value)))),
                st)

\* The handler from the request to its first await or to its response.
handler(v, req, mc) ==
  LET path == pathname(req.path)
  IN IF path = "/" \/ path = "" THEN root(v, req, mc)
     ELSE IF path = "/version" THEN version(v, mc)
     ELSE IF v # "api_index" /\ startsWith(path, "/subscription/")
     THEN {subscription(path, mc)}
     ELSE IF path = "/sub" \/ startsWith(path, "/sub")
     THEN IF v = "api_index" THEN {apiSub(req, mc)} ELSE processSubscription(v, req, path, mc)
     ELSE {Respond(Response("Not found", 404, <<>>), "route", LoopState(mc, <<>>), FALSE)}

\* What the backend may answer to a forwarded request, or the fetch fails.
BackendReplies ==
  {[failed |-> FALSE, status |-> 200, ctype |-> "text/yaml",
    body |-> "https://api.v1.mk/foo api.v1.mk"],
   [failed |-> FALSE, status |-> 502, ctype |-> "", body |-> "bad gateway"],
   [failed |-> TRUE, status |-> 0, ctype |-> "", body |-> ""]}

\* The literal replacements of forwardToBackend, in the order of the code.
rewrite(content, origin, host) ==
  replaceAll(replaceAll(replaceAll(replaceAll(content,
    "https://bulianglin2023.dev", origin),
    "bulianglin2023.dev", host),
    "https://api.v1.mk", origin),
    "api.v1.mk", host)

\* The response to the client once the backend fetch has settled.
backendAnswer(v, req, r) ==
  LET ctype == << <<"Content-Type", IF r.ctype = "" THEN "text/plain" ELSE r.ctype>> >>
  IN IF v = "part_000"
     THEN IF r.failed
          THEN Response("Error forwarding to backend: " \o FetchError, 500, <<>>)
          ELSE IF r.status \notin 200..299
          THEN Response("Backend error: " \o ToString(r.status), r.status, <<>>)
          ELSE Response(rewrite(r.body, req.origin, req.host), 200, ctype \o Cors)
     ELSE IF r.failed
          THEN Response("Error: " \o FetchError, 500, <<>>)
          ELSE Response(r.body, r.status, ctype \o Cors)

(***************************************************************************)
(* The environment: clients and upstream servers                           *)
(***************************************************************************)
\* The requests of one behaviour, in the order they are sent; the steps of
\* their invocations interleave at the awaits.  `clients` holds the requests
\* not yet sent.
Workloads ==
  {<<Request("/sub", "?url=vmess://abc|vless://xyz"),
     Request("/subscription/aaaaaaaaaaaaaaaa", ""),
     Request("/subscription/bbbbbbbbbbbbbbbb", "")>>,
   <<Request("/sub", "?url=http://s.io/a|vmess://abc|http://s.io/b"),
     Request("/subscription/aaaaaaaaaaaaaaaa", ""),
     Request("/subscription/aaaaaaaaaaaaaaaa_headers", "")>>,
   <<Request("/sub", "?url=http://s.io/a|https://s.io/b")>>,
   <<Request("/sub", "?url=dm1lc3M6Ly9hYmM=|!!!"),
     Request("/sub", "?url=ZG0xbGMzTTZMeTloWW1NS2RteGxjM002THk5NGVYbz0=")>>,
   <<Request("/sub", "?url="), Request("/sub", "?url=|"), Request("/sub", "?url=+|%20"),
     Request("/sub", "")>>,
   <<Request("/sub", "?url=vmess://abc&target=clash"),
     Request("/sub", "?url=vmess://abc&target=clash&x=1&x=2"),
     Request("/sub", "?url=vmess://abc&target=")>>,
   <<Request("/", ""), Request("/version", ""), Request("/subfoo", "?url=vmess://abc"),
     Request("/subscription", "?url=vmess://abc"), Request("/SUB", "?url=vmess://abc"),
     Request("/nope", "")>>,
   <<Request("/sub", "?url=tg://x"), Request("/subscription/", ""),
     Request("/subscription/a/b", ""), Request("/subscription/..%2fetc%2fpasswd", ""),
     Request("/subscription/../etc/passwd", ""), Request("/subscription/a..b", ""),
     Request("/subscription/cccccccccccccccc", "")>>}

\* The response headers of a subscription source, as Object.fromEntries gives them.
UpstreamHeaders == << <<"content-type", "text/html">> >>

\* The bodies a subscription source may send.
Bodies == {"dm1lc3M6Ly9hYmMKdmxlc3M6Ly94eXo=", "proxies: []", " \n"}

\* resp: the last response sent (req: its request; via: the stage that built
\* it; uris: replacedURIs at that point; fetched: whether the invocation
\* awaited a fetch; read: whether it called memoryCache.get).
NoResp ==
  [req |-> Request("", ""), res |-> NoResponse, via |-> "", uris |-> <<>>,
   fetched |-> FALSE, read |-> FALSE]

\* ops: the last step taken (step: "receive", "skip" for a `continue`,
\* "headers", "body" or "backend"), its memoryCache.set calls, and its
\* const parsed = parseData(content).
NoOps == [step |-> "", stored |-> {}, full |-> EmptyMap, parsed |-> NotParsed]

(***************************************************************************)
(* The server                                                              *)
(***************************************************************************)
Init ==
  /\ variant \in Variants
  /\ clients \in Workloads
  /\ memoryCache = EmptyMap
  /\ inflight = {}
  /\ resp = NoResp
  /\ ops = NoOps
  /\ data = ""
  /\ parsed = NotParsed

\* The effect of one step of the invocation for req (f: the suspended
\* invocation it continues, NoFlight for a new request).
Apply(out, f, req, fetched, step) ==
  /\ memoryCache' = out.st.mc
  /\ ops' = [step |-> step, stored |-> out.st.stored, full |-> out.st.full,
             parsed |-> out.st.parsed]
  /\ inflight' = (inflight \ {f}) \cup (IF out.await THEN {out.flight} ELSE {})
  /\ resp' = IF out.await THEN resp
             ELSE [req |-> req, res |-> out.res, via |-> out.via,
                   uris |-> out.st.uris, fetched |-> fetched, read |-> out.read]
  /\ UNCHANGED <<variant, data, parsed>>

\* A request arrives and its handler runs to its first await or to the end.
Receive(req) ==
  /\ clients # <<>> /\ req = Head(clients)
  /\ clients' = Tail(clients)
  /\ \E out \in handler(variant, req, memoryCache) : Apply(out, NoFlight, req, FALSE, "receive")

\* `continue`: on with the next segment.
Continue(f) ==
  \E out \in loop(variant, f.req.origin, f.urlParts, f.i + 1,
                  LoopState(memoryCache, f.replacedURIs)) :
    Apply(afterLoop(f.req, f.urlParts, out), f, f.req, TRUE, "skip")

\* The fetch of the segment resolves: clearTimeout, then the status check.
FetchReturns(f, ok) ==
  /\ UNCHANGED clients
  /\ f.kind = "resolve" /\ f.pc = "fetch"
  /\ IF ok
     THEN Apply(Await([f EXCEPT !.pc = "text", !.timer = FALSE, !.headers = UpstreamHeaders],
                      LoopState(memoryCache, f.replacedURIs)),
                f, f.req, TRUE, "headers")
     ELSE Continue(f)

\* The fetch rejects with a network error: the catch block.
FetchRejects(f) ==
  /\ UNCHANGED clients
  /\ f.kind = "resolve" /\ f.pc = "fetch"
  /\ Continue(f)

\* The 20 s timer fires while the fetch is pending: controller.abort()
\* rejects the fetch, and the catch block continues.
TimerFires(f) ==
  /\ UNCHANGED clients
  /\ f.kind = "resolve" /\ f.pc = "fetch" /\ f.timer
  /\ Continue(f)

\* response.text() resolves with the body.
BodyArrives(f, content) ==
  /\ UNCHANGED clients
  /\ f.kind = "resolve" /\ f.pc = "text"
  /\ IF content = "" \/ Len(trim(content)) = 0
     THEN Continue(f)
     ELSE \E st \in storeFetched(content, f.headers, f.key, f.req.origin,
                                 LoopState(memoryCache, f.replacedURIs)) :
            \E out \in loop(variant, f.req.origin, f.urlParts, f.i + 1, st) :
              Apply(afterLoop(f.req, f.urlParts, out), f, f.req, TRUE, "body")

\* response.text() rejects (the connection breaks): the catch block.
BodyRejects(f) ==
  /\ UNCHANGED clients
  /\ f.kind = "resolve" /\ f.pc = "text"
  /\ Continue(f)

\* The fetch of the backend URL settles.
BackendSettles(f, r) ==
  /\ UNCHANGED clients
  /\ f.kind = "backend"
  /\ Apply(Respond(backendAnswer(variant, f.req, r), "forward",
                   LoopState(memoryCache, <<>>), FALSE),
           f, f.req, TRUE, "backend")

Next ==
  \/ \E req \in {clients[i] : i \in DOMAIN clients} : Receive(req)
  \/ \E f \in inflight, ok \in BOOLEAN : FetchReturns(f, ok)
  \/ \E f \in inflight : FetchRejects(f)
  \/ \E f \in inflight : TimerFires(f)
  \/ \E f \in inflight, content \in Bodies : BodyArrives(f, content)
  \/ \E f \in inflight : BodyRejects(f)
  \/ \E f \in inflight, r \in BackendReplies : BackendSettles(f, r)

Spec == Init /\ [][Next]_vars

(***************************************************************************)
(* parseData on its own: the texts it is applied to                        *)
(***************************************************************************)
\* The texts are concatenations of at most MaxPieces of these pieces: two
\* 16-character base64 blocks ("vmess://abcd" and "hello world!" encoded), a
\* 4-character block, padding, white space, the YAML markers, a node scheme
\* and a character outside the base64 alphabet.
Pieces ==
  {"dm1lc3M6Ly9hYmNk", "aGVsbG8gd29ybGQh", "dm1l", "=", "\n", "proxies:", "Proxy:",
   "vmess://", "!"}

MaxPieces == 3

Texts == {Concat(ps) : ps \in UNION {[1..n -> Pieces] : n \in 0..MaxPieces}}

InitParse ==
  /\ variant = "part_000"
  /\ clients = <<>>
  /\ memoryCache = EmptyMap
  /\ inflight = {}
  /\ resp = NoResp
  /\ ops = NoOps
  /\ data \in Texts
  /\ parsed = NotParsed

\* const parsed = parseData(data)
Classify ==
  /\ parsed = NotParsed
  /\ parsed' = parseData(data)
  /\ UNCHANGED <<variant, clients, memoryCache, inflight, resp, ops, data>>

NextParse == Classify

SpecParse == InitParse /\ [][NextParse]_vars

(***************************************************************************)
(* C7                                                                      *)
(***************************************************************************)
Formats == {"base64", "yaml", "direct", "unknown"}

\* Step 1 of the precedence: the trimmed text is over the base64 alphabet
\* (with padding and white space), longer than 20 characters, decodes, and
\* the decoded text contains "://".
LooksBase64(t) ==
  /\ Len(trim(t)) > 0
  /\ CharsOf(trim(t)) \subseteq CharsOf(Base64Chars) \cup {"=", " ", "\t", "\n", "\r", "\f"}
  /\ Len(trim(t)) > 20

DecodesToLinks(t) ==
  /\ LooksBase64(t)
  /\ atob(removeSpaces(trim(t))).ok
  /\ includes(atob(removeSpaces(trim(t))).text, "://")

HasYamlMarker(t) == includes(trim(t), "proxies:") \/ includes(trim(t), "Proxy:")

HasNodeScheme(t) == \E scheme \in NodeSchemes : startsWith(trim(t), scheme \o "://")

\* C7: parseData returns, for every text, exactly one of the four tags, chosen
\* by the precedence base64 (decodable, with "://") > yaml > direct > unknown;
\* a base64-looking text whose decoding fails or lacks "://" is classified by
\* steps 2-4; the data is the decoded text for base64 and the trimmed text
\* otherwise.
C7_Precedence ==
  parsed # NotParsed =>
    /\ parsed.format \in Formats
    /\ (parsed.format = "base64") <=> DecodesToLinks(data)
    /\ (parsed.format = "yaml") <=> (~DecodesToLinks(data) /\ HasYamlMarker(data))
    /\ (parsed.format = "direct")
         <=> (~DecodesToLinks(data) /\ ~HasYamlMarker(data) /\ HasNodeScheme(data))
    /\ (parsed.format = "unknown")
         <=> (~DecodesToLinks(data) /\ ~HasYamlMarker(data) /\ ~HasNodeScheme(data))
    /\ parsed.data = IF DecodesToLinks(data) THEN atob(removeSpaces(trim(data))).text
                     ELSE trim(data)

\* A text with a YAML marker after a node scheme has been classified yaml.
C7_Witness ==
  /\ parsed.format = "yaml"
  /\ HasNodeScheme(data)

(***************************************************************************)
(* C1                                                                      *)
(***************************************************************************)
QueryOf(req) == searchParams(searchOf(req))

ParamNames(params) == {params[i][1] : i \in DOMAIN params}

\* A /sub request with a target parameter and a non-empty url.
HasTarget(req) ==
  /\ req.path = "/sub"
  /\ "target" \in ParamNames(QueryOf(req))
  /\ "url" \in ParamNames(QueryOf(req))
  /\ get(QueryOf(req), "url").value # ""

\* The path and the query of a backend URL.
BackendTail(u) == SubSeq(u, Len(BACKEND) + 1, Len(u))

BackendPath(u) ==
  IF indexOf(BackendTail(u), "?") = 0 THEN BackendTail(u)
  ELSE SubSeq(BackendTail(u), 1, indexOf(BackendTail(u), "?") - 1)

BackendQuery(u) ==
  IF indexOf(BackendTail(u), "?") = 0 THEN ""
  ELSE SubSeq(BackendTail(u), indexOf(BackendTail(u), "?"), Len(BackendTail(u)))

\* C1: a /sub request with a target parameter and a non-empty url is handed
\* to the backend and never resolved (no segment fetched, no URI produced,
\* nothing stored), and the backend URL has the original path and, for every
\* parameter name of the request, the original values in the original order.
C1_TargetForwarded ==
  /\ \A f \in inflight :
       HasTarget(f.req) =>
         /\ f.kind = "backend"
         /\ BackendPath(f.backendUrl) = f.req.path
         /\ \A name \in ParamNames(QueryOf(f.req)) :
              getAll(searchParams(BackendQuery(f.backendUrl)), name)
                = getAll(QueryOf(f.req), name)
  /\ HasTarget(resp.req) =>
       /\ resp.via = "forward"
       /\ resp.uris = <<>>
       /\ ~resp.read

(***************************************************************************)
(* C2                                                                      *)
(***************************************************************************)
\* The segments of the url value of a request.
Segments(req) == nonBlank(split(get(QueryOf(req), "url").value, "|"))

\* C2: in a resolve none of whose segments is an http(s) URL, every segment
\* contributes at least one output URI: a direct link one, a segment that
\* decodes into link lines one per line, any other segment itself.
C2_FallbackKeepsSegment ==
  (/\ resp.via = "resolve"
   /\ \A i \in DOMAIN Segments(resp.req) : ~isHttp(Segments(resp.req)[i]))
  => Len(resp.uris) >= Len(Segments(resp.req))

(***************************************************************************)
(* C3                                                                      *)
(***************************************************************************)
\* The url value consists of n >= 1 direct node links.
DirectOnly(req) ==
  /\ Len(Segments(req)) >= 1
  /\ \A i \in DOMAIN Segments(req) : nodeLinkPattern(Segments(req)[i])

KeyOfUri(uri, origin) == SubSeq(uri, Len(origin) + Len("/subscription/") + 1, Len(uri))

\* {host}/subscription/{key} with a key of 16 characters of [a-z0-9].
UriForm(uri, origin) ==
  /\ startsWith(uri, origin \o "/subscription/")
  /\ Len(KeyOfUri(uri, origin)) = 16
  /\ CharsOf(KeyOfUri(uri, origin)) \subseteq CharsOf(chars)

\* The URIs the body of a resolve response carries.
UrisInBody(res) == split(atob(res.body).text, "\r\n")

\* The step sends the response of a resolve of direct links only.
DirectResolved(r) == r.via = "resolve" /\ DirectOnly(r.req)

\* GET /subscription/{key} on the store mc returns link as text/plain.
Returns(mc, key, link) ==
  /\ serve(mc, key).status = 200
  /\ serve(mc, key).body = link
  /\ serve(mc, key).headers["content-type"] = "text/plain"

\* The last segment whose URI is uris[i].
LastWith(uris, i) == SetMax({j \in DOMAIN uris : uris[j] = uris[i]})

\* The original statement of C3: the response to a resolve of n direct links
\* carries n URIs {host}/subscription/{key}, nothing is fetched, and a GET of
\* the i-th key right after the response returns the i-th link as text/plain.
C3_DirectLinksOriginal ==
  [][(resp' # resp /\ DirectResolved(resp')) =>
       /\ ~resp'.fetched
       /\ resp'.res.status = 200
       /\ UrisInBody(resp'.res) = resp'.uris
       /\ Len(resp'.uris) = Len(Segments(resp'.req))
       /\ \A i \in DOMAIN resp'.uris :
            /\ UriForm(resp'.uris[i], resp'.req.origin)
            /\ Returns(memoryCache', KeyOfUri(resp'.uris[i], resp'.req.origin),
                       Segments(resp'.req)[i])]_vars

\* C3 (amended): as above, but a GET of the i-th key returns the link of the
\* last segment that was given the same key: the i-th link itself whenever the
\* generated keys are pairwise distinct.
C3_DirectLinks ==
  [][(resp' # resp /\ DirectResolved(resp')) =>
       /\ ~resp'.fetched
       /\ resp'.res.status = 200
       /\ UrisInBody(resp'.res) = resp'.uris
       /\ Len(resp'.uris) = Len(Segments(resp'.req))
       /\ \A i \in DOMAIN resp'.uris :
            /\ UriForm(resp'.uris[i], resp'.req.origin)
            /\ Returns(memoryCache', KeyOfUri(resp'.uris[i], resp'.req.origin),
                       Segments(resp'.req)[LastWith(resp'.uris, i)])]_vars

\* The two links of "vmess://abc|vless://xyz" have been stored under two
\* different keys and the response has been sent.
C3_Witness ==
  /\ DirectResolved(resp)
  /\ Len(resp.uris) = 2
  /\ resp.uris[1] # resp.uris[2]
  /\ Returns(memoryCache, KeyOfUri(resp.uris[1], resp.req.origin), "vmess://abc")
  /\ Returns(memoryCache, KeyOfUri(resp.uris[2], resp.req.origin), "vless://xyz")

(***************************************************************************)
(* C4                                                                      *)
(***************************************************************************)
\* GET /subscription/{key} on the store mc returns content with the
\* Content-Type ctype and the CORS header.
RoundTrip(mc, key, content, ctype) ==
  /\ serve(mc, key).status = 200
  /\ serve(mc, key).body = content
  /\ serve(mc, key).headers["content-type"] = ctype
  /\ serve(mc, key).headers["access-control-allow-origin"] = "*"

\* Every content stored in the last step, with its Content-Type, is what a
\* GET of its key returns.
StoredIsServed ==
  \A key \in DOMAIN ops.full :
    RoundTrip(memoryCache, key, ops.full[key].content, ops.full[key].ctype)

\* A step that does not store under a generated key leaves the answer to a
\* GET of that key as it was.
AnswerKept ==
  \A key \in generateRandomStr(KeyLen) :
    key \notin ops'.stored => serve(memoryCache', key) = serve(memoryCache, key)

\* No step removes an entry of the store.
StoreGrows == \A k \in DOMAIN memoryCache : k \in DOMAIN memoryCache'

\* The request received in this step is for /, /version or /subscription/.
ReadOnlyRequest ==
  /\ clients # <<>> /\ clients' = Tail(clients)
  /\ \/ pathname(Head(clients).path) \in {"/", "/version"}
     \/ startsWith(pathname(Head(clients).path), "/subscription/")

\* The step sends an error response.
FailedRequest == resp' # resp /\ resp'.res.status >= 400

\* The step answers a GET /subscription/{key} from the store.
Lookup == resp' # resp /\ resp'.via = "lookup" /\ resp'.read

\* C4: what is stored under a key with a Content-Type is what GET
\* /subscription/{key} returns (body, Content-Type, CORS header), and keeps
\* being returned until a step stores under that key again; the store never
\* loses an entry; GET /subscription/, /version, / and failed requests leave
\* it unchanged.
C4_RoundTripDurable ==
  /\ []StoredIsServed
  /\ [][/\ AnswerKept
        /\ StoreGrows
        /\ (ReadOnlyRequest \/ FailedRequest) => memoryCache' = memoryCache
        /\ Lookup => resp'.res = serve(memoryCache,
                                       replaceFirst(pathname(resp'.req.path),
                                                    "/subscription/", ""))]_vars

\* The link vmess://abc, stored by an earlier request, has been returned by a
\* later GET of its key.
C4_Witness ==
  /\ resp.via = "lookup"
  /\ resp.res.status = 200
  /\ resp.res.body = "vmess://abc"
  /\ resp.res.headers["content-type"] = "text/plain"
  /\ resp.res.headers["access-control-allow-origin"] = "*"

(***************************************************************************)
(* C5                                                                      *)
(***************************************************************************)
IsPrefix(a, b) == Len(a) <= Len(b) /\ SubSeq(b, 1, Len(a)) = a

\* The output list after the step of the invocation of req: that of its
\* suspended invocation, or that of its response.
UrisAfter(req) ==
  IF \E g \in inflight' : g.req = req
  THEN (CHOOSE g \in inflight' : g.req = req).replacedURIs
  ELSE resp'.uris

\* Where the invocation of req stands after the step: the index of the
\* segment whose fetch is pending, or one past the last segment.
IndexAfter(f) ==
  IF \E g \in inflight' : g.req = f.req
  THEN (CHOOSE g \in inflight' : g.req = f.req).i
  ELSE Len(f.urlParts) + 1

\* The step skips the segment flight f is retrieving: the fetch failed, was
\* aborted, was answered with a status outside 2xx, or the body was blank or
\* could not be read.
Skips(f) == f \in inflight /\ f \notin inflight' /\ f.kind = "resolve" /\ ops'.step = "skip"

AllInvalidBody == "Error: All subscription links are invalid or returned empty content."

\* The response of a resolve with at least one segment fails if and only if
\* the output list is empty.
FailsIffEmpty ==
  (resp.via = "resolve" /\ Len(Segments(resp.req)) >= 1) =>
    IF resp.uris = <<>>
    THEN resp.res.status = 400 /\ resp.res.body = AllInvalidBody
    ELSE resp.res.status = 200 /\ UrisInBody(resp.res) = resp.uris

\* C5: a skipped segment adds no URI and no store entry: the URIs collected
\* before it are kept, the URIs added in the step are one per direct link
\* between the skipped segment and the next stop, and the keys written are
\* those of the URIs added; the invocation goes on to a later segment or to
\* its response; the response fails (400, all links invalid) if and only if
\* the output list is empty.
C5_FailuresSkipped ==
  /\ []FailsIffEmpty
  /\ [][\A f \in inflight :
          Skips(f) =>
            /\ IndexAfter(f) > f.i
            /\ (IndexAfter(f) > Len(f.urlParts)) => (resp'.req = f.req /\ resp'.via = "resolve")
            /\ IsPrefix(f.replacedURIs, UrisAfter(f.req))
            /\ Len(UrisAfter(f.req)) - Len(f.replacedURIs)
                 = Cardinality({j \in (f.i + 1)..(IndexAfter(f) - 1) :
                                  nodeLinkPattern(f.urlParts[j])})
            /\ ops'.stored
                 = {KeyOfUri(UrisAfter(f.req)[j], f.req.origin) :
                      j \in (Len(f.replacedURIs) + 1)..Len(UrisAfter(f.req))}
            /\ \A k \in DOMAIN memoryCache' :
                 \/ k \in DOMAIN memoryCache /\ memoryCache'[k] = memoryCache[k]
                 \/ \E key \in ops'.stored : k \in {key, key \o "_headers"}]_vars

\* Both fetches of "http://s.io/a|https://s.io/b" have failed and the request
\* has been answered 400.
C5_Witness ==
  /\ resp.via = "resolve"
  /\ resp.fetched
  /\ ops.step = "skip"
  /\ Len(Segments(resp.req)) = 2
  /\ resp.uris = <<>>
  /\ resp.res.status = 400
  /\ resp.res.body = AllInvalidBody

(***************************************************************************)
(* C6                                                                      *)
(***************************************************************************)
\* The build has the Content Store and the route /subscription/.
HasStore == variant \in {"part_000", "part_001"}

AfterPrefix(path) == SubSeq(path, Len("/subscription/") + 1, Len(path))

\* The key is empty, contains "/" or contains "..".
KeyBad(key) ==
  \/ key = ""
  \/ "/" \in CharsOf(key)
  \/ \E i \in 1..(Len(key) - 1) : SubSeq(key, i, i + 1) = ".."

InvalidKeyAnswer(r) == r.res.status = 400 /\ r.res.body = "Invalid key" /\ ~r.read

AllBlank(value) == \A c \in CharsOf(value) : c = "|" \/ IsSpace(c)

\* A /sub request for the resolver (no target) whose url is present and has
\* no segment that is not blank.
BlankUrl(req) ==
  /\ req.path = "/sub"
  /\ "url" \in ParamNames(QueryOf(req))
  /\ "target" \notin ParamNames(QueryOf(req))
  /\ AllBlank(get(QueryOf(req), "url").value)

\* The step fetched nothing and wrote nothing.
NothingDone == ~resp'.fetched /\ inflight' = inflight /\ memoryCache' = memoryCache

\* The original statement of C8: a url that is empty or made of separators
\* and blank segments is answered 400 "There are no valid links"; nothing is
\* fetched and nothing is written.
C8_NoValidLinksOriginal ==
  [][(HasStore /\ resp' # resp /\ BlankUrl(resp'.req)) =>
       /\ resp'.res.status = 400
       /\ resp'.res.body = "There are no valid links"
       /\ NothingDone]_vars

\* C8 (amended): an empty url is answered 400 "Missing url parameter", a
\* non-empty url made of separators and blank segments 400 "There are no
\* valid links"; in both cases nothing is fetched and nothing is written.
C8_NoValidLinks ==
  [][(HasStore /\ resp' # resp /\ BlankUrl(resp'.req)) =>
       /\ resp'.res.status = 400
       /\ resp'.res.body = IF get(QueryOf(resp'.req), "url").value = ""
                           THEN "Missing url parameter"
                           ELSE "There are no valid links"
       /\ NothingDone]_vars

\* The request /sub?url=+|%20 (the url " | ") has been answered.
C8_Witness ==
  /\ HasStore
  /\ BlankUrl(resp.req)
  /\ get(QueryOf(resp.req), "url").value = " | "
  /\ resp.res.status = 400
  /\ resp.res.body = "There are no valid links"

(***************************************************************************)
(* C9                                                                      *)
(***************************************************************************)
KnownRoute(path) ==
  path \in {"/", "/version", "/sub"} \/ startsWith(path, "/subscription/")

\* C9: a request whose path is none of /, /version, /sub and
\* /subscription/{key} is answered 404 "Not found" by the dispatcher; it is
\* never resolved or forwarded and never reads the store.
C9_ExactRoutes ==
  /\ \A f \in inflight : KnownRoute(pathname(f.req.path))
  /\ (resp # NoResp /\ ~KnownRoute(pathname(resp.req.path))) =>
       /\ resp.res.status = 404
       /\ resp.res.body = "Not found"
       /\ resp.via = "route"
       /\ resp.uris = <<>>
       /\ ~resp.read

(***************************************************************************)
(* C10                                                                     *)
(***************************************************************************)
\* C10: while the retrieval of a subscription URL is pending, at the fetch
\* or at the read of the body, its 20 s timer is armed, so that its expiry
\* cancels the retrieval.
C10_TimerBoundsRetrieval ==
  \A f \in inflight :
    (f.kind = "resolve" /\ f.pc \in {"fetch", "text"}) => f.timer

(***************************************************************************)
(* forwardToBackend on its own: the rewriting of the backend's body        *)
(***************************************************************************)
\* A request that arrives at another host (getHost: protocol // host).
RequestAt(host, path, search) ==
  [origin |-> "https://" \o host, host |-> host, path |-> path, search |-> search]

\* The hosts the function is deployed at: two of its own, and one under the
\* friendly placeholder domain.
Hosts == {"example.com", "h.io", "psub.bulianglin2023.dev"}

\* The bodies of the backend are concatenations of at most MaxBodyPieces of
\* these pieces.
BodyPieces ==
  {"https://api.v1.mk", "api.v1.mk", "https://bulianglin2023.dev", "bulianglin2023.dev",
   "/foo ", "http://"}

MaxBodyPieces == 2

BackendBodies == {Concat(ps) : ps \in UNION {[1..n -> BodyPieces] : n \in 0..MaxBodyPieces}}

\* The backend has answered 200 with the body `data` to the forwarded
\* request resp.req; the response is not built yet.
InitRewrite ==
  /\ variant = "part_000"
  /\ clients = <<>>
  /\ memoryCache = EmptyMap
  /\ inflight = {}
  /\ \E host \in Hosts :
       resp = [NoResp EXCEPT !.req = RequestAt(host, "/sub", "?url=vmess://abc&target=clash")]
  /\ ops = NoOps
  /\ data \in BackendBodies
  /\ parsed = NotParsed

\* content = decoder.decode(buffer); the four replacements; return new Response
Rewrite ==
  /\ resp.via = ""
  /\ resp' = [resp EXCEPT
               !.res = backendAnswer(variant, resp.req,
                         [failed |-> FALSE, status |-> 200, ctype |-> "", body |-> data]),
               !.via = "forward",
               !.fetched = TRUE]
  /\ ops' = [ops EXCEPT !.step = "backend"]
  /\ UNCHANGED <<variant, clients, memoryCache, inflight, data, parsed>>

NextRewrite == Rewrite

SpecRewrite == InitRewrite /\ [][NextRewrite]_vars

(***************************************************************************)
(* C11                                                                     *)
(***************************************************************************)
PlaceholderDomains == {"bulianglin2023.dev", "api.v1.mk"}

At(body, i, pat) ==
  i + Len(pat) - 1 <= Len(body) /\ SubSeq(body, i, i + Len(pat) - 1) = pat

\* An occurrence of https://{domain}, or of a bare {domain}, starts at i.
FullAt(body, i) == \E d \in PlaceholderDomains : At(body, i, "https://" \o d)

BareAt(body, i) == \E d \in PlaceholderDomains : At(body, i, d)

\* Position i lies inside an occurrence that starts before it.
InsideFull(body, i) ==
  \E j \in 1..(i - 1), d \in PlaceholderDomains :
    At(body, j, "https://" \o d) /\ i < j + Len("https://" \o d)

InsideBare(body, i) ==
  \E j \in 1..(i - 1), d \in PlaceholderDomains : At(body, j, d) /\ i < j + Len(d)

\* The body with every occurrence of https://{domain} replaced by origin and
\* every remaining bare {domain} by host, the rest as it is.
Rehosted(body, origin, host) ==
  Concat([i \in 1..Len(body) |->
     IF FullAt(body, i) THEN origin
     ELSE IF InsideFull(body, i) THEN ""
     ELSE IF BareAt(body, i) THEN host
     ELSE IF InsideBare(body, i) THEN ""
     ELSE CharAt(body, i)])

\* C11: the body returned for a forwarded request is the backend's body with
\* every https://{domain} replaced by the request's origin and every
\* remaining bare {domain} by its host, for both placeholder domains and
\* whichever form comes first.
C11_Rehosted ==
  (resp.via = "forward" /\ resp.res.status = 200) =>
    resp.res.body = Rehosted(data, resp.req.origin, resp.req.host)

\* ---------------------------------------------------------------------------
\* C12: a fetched base64 payload is exploded into one entry per decoded line.

\* The step reads the body flight f was waiting for, and parseData classifies
\* it as base64.
Explodes(f) ==
  /\ f \in inflight /\ f \notin inflight' /\ f.kind = "resolve"
  /\ ops'.step = "body" /\ ops'.parsed.format = "base64"

\* The non-blank lines of the payload decoded in the step.
DecodedLines == nonBlank(splitLines(ops'.parsed.data))

\* The URIs the step of flight f appended to the output list.
Added(f) == SubSeq(UrisAfter(f.req), Len(f.replacedURIs) + 1, Len(UrisAfter(f.req)))

\* The direct links between the segment of flight f and the next stop.
DirectAfter(f) ==
  SelectSeq(SubSeq(f.urlParts, f.i + 1, IndexAfter(f) - 1), nodeLinkPattern)

\* A 200 response of the resolver is the base64 encoding of its output list
\* joined with CRLF, and the key of every URI in it is in the store.
CarriesUris ==
  (resp.via = "resolve" /\ resp.res.status = 200) =>
    /\ resp.res.body = btoa(join(resp.uris, "\r\n"))
    /\ \A i \in DOMAIN resp.uris :
         /\ UriForm(resp.uris[i], resp.req.origin)
         /\ KeyOfUri(resp.uris[i], resp.req.origin) \in DOMAIN memoryCache

\* What every step that explodes a payload does to the output list: the URIs
\* collected before are kept, then comes one URI per decoded line, then one
\* per direct link up to the next stop.
AppendsInOrder(f) ==
  /\ IsPrefix(f.replacedURIs, UrisAfter(f.req))
  /\ Len(Added(f)) >= Len(DecodedLines)
  /\ (variant = "part_000") => Len(Added(f)) = Len(DecodedLines) + Len(DirectAfter(f))
  /\ \A j \in DOMAIN Added(f) : UriForm(Added(f)[j], f.req.origin)
  /\ (IndexAfter(f) > Len(f.urlParts)) => (resp'.req = f.req /\ resp'.uris = UrisAfter(f.req))

\* The original statement of C12: the step stores n new entries, one per
\* decoded line, each served verbatim as text/plain under the key of the
\* URI appended for it.
C12_ExplodedOriginal ==
  /\ []CarriesUris
  /\ [][\A f \in inflight :
          Explodes(f) =>
            /\ AppendsInOrder(f)
            /\ \A j \in DOMAIN DecodedLines :
                 /\ KeyOfUri(Added(f)[j], f.req.origin) \notin DOMAIN memoryCache
                 /\ Returns(memoryCache', KeyOfUri(Added(f)[j], f.req.origin),
                            DecodedLines[j])
            /\ Cardinality({KeyOfUri(Added(f)[j], f.req.origin) : j \in DOMAIN DecodedLines})
                 = Len(DecodedLines)]_vars

\* C12 (amended): a step that reads a base64 body of n non-blank decoded
\* lines appends n URIs in line order after the URIs collected before, and
\* writes each line as text/plain under the key of its URI; a GET of the
\* j-th key right after the step returns, as text/plain, the content last
\* written under it in the step, which is the j-th line whenever the key is
\* not drawn again later in the step; the response body is the base64
\* encoding of the output list joined with CRLF, and every key in it is in
\* the store.
C12_Exploded ==
  /\ []CarriesUris
  /\ [][\A f \in inflight :
          Explodes(f) =>
            /\ AppendsInOrder(f)
            /\ \A j \in DOMAIN DecodedLines :
                 LET key == KeyOfUri(Added(f)[j], f.req.origin)
                 IN /\ key \in ops'.stored
                    /\ key \in DOMAIN ops'.full
                    /\ Returns(memoryCache', key, ops'.full[key].content)
                    /\ (LastWith(Added(f), j) = j) => ops'.full[key].content = DecodedLines[j]
                    /\ (LastWith(Added(f), j) <= Len(DecodedLines))
                         => ops'.full[key].content = DecodedLines[LastWith(Added(f), j)]]_vars

\* The payload "vmess://abc\nvless://xyz" has been read and its two lines
\* stored under two different keys.
C12_Witness ==
  /\ ops.step = "body" /\ ops.parsed.format = "base64"
  /\ \E k1, k2 \in DOMAIN ops.full :
       /\ k1 # k2
       /\ ops.full[k1] = [content |-> "vmess://abc", ctype |-> "text/plain"]
       /\ ops.full[k2] = [content |-> "vless://xyz", ctype |-> "text/plain"]
       /\ Returns(memoryCache, k1, "vmess://abc")
       /\ Returns(memoryCache, k2, "vless://xyz")

\* ---------------------------------------------------------------------------
\* C13: what the store holds and what GET /subscription/{k} hands out.

HeadersSuffix == "_headers"

\* k has the form {key}_headers.
IsHeadersKey(k) ==
  /\ Len(k) > Len(HeadersSuffix)
  /\ SubSeq(k, Len(k) - Len(HeadersSuffix) + 1, Len(k)) = HeadersSuffix

\* Every entry of the store is content that has its headers record, or the
\* headers record of content that is in the store.
EntryKinds ==
  \A k \in DOMAIN memoryCache :
    IF IsHeadersKey(k)
    THEN SubSeq(k, 1, Len(k) - Len(HeadersSuffix)) \in DOMAIN memoryCache
    ELSE (k \o HeadersSuffix) \in DOMAIN memoryCache

\* A step writes under a key the content together with its headers record,
\* and the content is referenced by a URI of the output list.
WrittenTogether ==
  /\ ops'.stored \subseteq DOMAIN ops'.full
  /\ \A key \in ops'.stored :
       /\ key \in DOMAIN memoryCache' /\ (key \o HeadersSuffix) \in DOMAIN memoryCache'
       /\ key \in DOMAIN ops'.full =>
            memoryCache'[key \o HeadersSuffix]
              = stringify(<< <<"Content-Type", ops'.full[key].ctype>> >>)

\* A GET /subscription/{k} answered 200 was asked for a generated key, and its
\* body is no headers record.
ServesNodesOnly ==
  (resp.via = "lookup" /\ resp.res.status = 200) =>
    /\ ~IsHeadersKey(replaceFirst(pathname(resp.req.path), "/subscription/", ""))
    /\ resp.res.body # stringify(UpstreamHeaders)
    /\ \A ctype \in {"text/plain", "text/plain;charset=UTF-8"} :
         resp.res.body # stringify(<< <<"Content-Type", ctype>> >>)

\* C13: every entry of the store is node content or the headers record
\* written together with it; a GET /subscription/{k} returns 200 only with
\* node content, never with a {key}_headers record nor with the response
\* headers captured from a fetch; the headers record of a key is the one
\* written together with its content.
C13_StoreInvariant ==
  /\ []EntryKinds
  /\ []ServesNodesOnly
  /\ [][WrittenTogether]_vars

====
